---- MODULE Spec2Model ----
(***************************************************************************)
(* Model of the Power BI MCP relay (railway_app.py, function_app.py,       *)
(* powerbi_server.py): the shared TOKEN cache, get_access_token,           *)
(* ensure_token, make_request, wait_for_operation, the five tool functions *)
(* and the dispatcher call_powerbi_tool.                                   *)
(*                                                                         *)
(* Each handler is a process p with a program counter pc[p].  One action   *)
(* is one access to the shared TOKEN or one network round trip; the local  *)
(* computation that follows it in the code (formatting, wrapping in the    *)
(* envelope, returning) is part of the same action.                        *)
(***************************************************************************)
EXTENDS Integers, Sequences, FiniteSets, TLC

\* ------------------------------------------------------------------ bounds
\* number of distinct bearer values the identity endpoint may issue
MaxToken == 2
\* polls after which the model stops following an unbounded poll loop
PollCap == 7

\* ---------------------------------------------------------------- constants
\* wait_for_operation: max_retries = 5
max_retries == 5

Procs == {1, 2}
Tokens == 1..MaxToken
\* TOKEN = "" is modelled as 0
NoToken == 0

\* the deployment variants: railway_app.py on one side, function_app.py and
\* powerbi_server.py (identical token manager, executor and poller) on the other
Variants == {"railway", "function"}

CredNames == {"CLIENT_ID", "CLIENT_SECRET", "TENANT_ID"}
ArgNames == {"workspace_id", "dataset_id", "query"}
\* an argument is absent (None), the empty string, or a non-empty string
ArgValues == {"absent", "empty", "val"}
ArgBags == [ArgNames -> ArgValues]
ToolNames == {"list_workspaces", "list_datasets", "get_model_definition",
              "execute_dax_query", "test_connection"}
\* tool names a request may carry: the five tools and one unknown name
RequestNames == ToolNames \cup {"unknown_tool"}

VARIABLES
    variant,    \* which source file is deployed
    env,        \* the credential variables that are set (non-empty)
    active,     \* the handlers the hosting runtime runs
    TOKEN,      \* the global cached bearer token
    pc,         \* position of each handler
    tool,       \* tool_name of the current call
    args,       \* arguments of the current call
    hdr,        \* token in the local headers dict
    response,   \* status_code of the local variable response (0: none)
    retries,    \* wait_for_operation: retries
    result,     \* what call_powerbi_tool returned
    stats,      \* history of the current call (what was sent where)
    reply,      \* the HTTP reply mcp_endpoint gave to the last request
    platform,   \* the remote side: whether it has recovered, and the
                \* tokens it then accepts
    idp,        \* the bearer values the identity endpoint has issued
    fin,        \* input of a formatting function
    fout        \* what the formatting function returned

vars == <<variant, env, active, TOKEN, pc, tool, args, hdr, response,
          retries, result, stats, reply, platform, idp, fin, fout>>

\* what no handler action changes
frame == <<variant, env, active, fin, fout>>

\* ----------------------------------------------------------------- messages
Msg(tag, status) == [tag |-> tag, status |-> status]
NoMsg == Msg("", 0)

\* value returned by make_request / wait_for_operation: an error dict
\* {"error": ...} or a decoded JSON body; usable is FALSE for a body that
\* decodes but has not the shape the tool function indexes into
ErrDict(tag, status) == [error |-> TRUE, msg |-> Msg(tag, status), usable |-> TRUE]
JsonBody(usable) == [error |-> FALSE, msg |-> Msg("json", 0), usable |-> usable]

\* response.ok
ok(status) == status < 400

\* ------------------------------------------------------------- environment
\* what the identity endpoint may answer to the client-credentials POST:
\* a network exception, a non-success status, a success body without
\* access_token, or a success body with a bearer value.  It issues a token
\* only for a complete credential set.
IdResponses(e) ==
    {[kind |-> "exc", tok |-> NoToken], [kind |-> "status", tok |-> NoToken],
     [kind |-> "nofield", tok |-> NoToken]}
    \cup (IF e = CredNames THEN {[kind |-> "ok", tok |-> t] : t \in Tokens} ELSE {})

Statuses == {200, 202, 401, 500}
Bodies == {"good", "unparsable", "unusable"}
\* what a platform endpoint may answer: a network exception or an HTTP
\* response with a status and a body
PlatResponses ==
    {[kind |-> "exc", status |-> 0, body |-> "none"]}
    \cup {[kind |-> "http", status |-> s, body |-> b] :
            s \in Statuses, b \in Bodies}
\* the status field of an operation-status body ("missing": no such field)
OpStatuses == {"Succeeded", "Failed", "Running", "missing"}

\* Once the remote side has recovered, the identity endpoint issues a token
\* on every exchange, the platform answers a request carrying a token it
\* accepts with success and a well-formed body, answers any other request
\* 401, and operations complete.  Before that it may answer anything.
IdAnswers ==
    IF platform.healthy THEN {[kind |-> "ok", tok |-> t] : t \in Tokens}
    ELSE IdResponses(env)
PlatAnswers(tok) ==
    IF platform.healthy
    THEN IF tok \in platform.valid
         THEN {[kind |-> "http", status |-> s, body |-> "good"] : s \in {200, 202}}
         ELSE {[kind |-> "http", status |-> 401, body |-> "good"]}
    ELSE PlatResponses
OpAnswers == IF platform.healthy THEN {"Succeeded"} ELSE OpStatuses
RetryAfterAnswers == IF platform.healthy THEN {TRUE} ELSE BOOLEAN

\* ------------------------------------------------------------ token manager
\* get_access_token: the credential check exists in railway_app.py only
HasCredentialCheck(v) == v = "railway"

\* get_access_token reading the field with a default of "" instead of
\* indexing it: a body without access_token empties the cache
get_access_token_default(v, e, tok, r) ==
    IF HasCredentialCheck(v) /\ e # CredNames
    THEN [TOKEN |-> tok, ret |-> FALSE, net |-> FALSE]
    ELSE IF r.kind \in {"ok", "nofield"}
         THEN [TOKEN |-> r.tok, ret |-> TRUE, net |-> TRUE]
         ELSE [TOKEN |-> tok, ret |-> FALSE, net |-> TRUE]

\* get_access_token(): the new TOKEN, the returned flag, and whether the
\* identity endpoint was called (net)
get_access_token(v, e, tok, r) ==
    IF HasCredentialCheck(v) /\ e # CredNames
    THEN [TOKEN |-> tok, ret |-> FALSE, net |-> FALSE]
    ELSE IF r.kind = "ok"
         THEN [TOKEN |-> r.tok, ret |-> TRUE, net |-> TRUE]
         ELSE [TOKEN |-> tok, ret |-> FALSE, net |-> TRUE]

\* ensure_token that always exchanges
ensure_token_always(tok) == FALSE

\* ensure_token(): TRUE when the cache check alone answers (no exchange)
ensure_token_cached(tok) == tok # NoToken

\* ---------------------------------------------------------------- executor
\* make_request refreshing on every non-success status
AfterFirstResponse_anyFailure(r) ==
    IF r.kind = "exc" THEN "error"
    ELSE IF ok(r.status) THEN "return"
    ELSE "refresh"

\* make_request, after a response to the first request: "return" the JSON
\* body, "refresh" (status 401), or "error"
AfterFirstResponse(r) ==
    IF r.kind = "exc" THEN "error"
    ELSE IF ok(r.status) THEN "return"
    ELSE IF r.status = 401 THEN "refresh"
    ELSE "error"

\* make_request: the value returned for a response that ends the call
\* (the except branch returns str(e); a body that fails to decode raises
\* inside the try block)
RequestResult(r) ==
    IF r.kind = "exc" THEN ErrDict("exception", 0)
    ELSE IF ok(r.status)
         THEN IF r.body = "unparsable" THEN ErrDict("exception", 0)
              ELSE JsonBody(r.body = "good")
         ELSE ErrDict("HTTP", r.status)

\* make_request keeping the first response for the error text
RetryResult_first(firstStatus, r) ==
    IF r.kind = "http" /\ ~ok(r.status)
    THEN ErrDict("HTTP", firstStatus)
    ELSE RequestResult(r)

\* make_request: the value returned after the retried request; response is
\* reassigned by the retry, so an HTTP error carries the retry's status
RetryResult(firstStatus, r) == RequestResult(r)

\* ------------------------------------------------------------------ poller
\* a loop test that never ends the loop
PollAgain_unbounded(v, n) == TRUE

\* wait_for_operation: the loop test (while retries < max_retries in
\* railway_app.py, while True in function_app.py and powerbi_server.py)
PollAgain(v, n) == IF v = "railway" THEN n < max_retries ELSE TRUE

\* a poller that reads the cached token anew for every GET
PollerToken_cached(held, cached) == cached

\* wait_for_operation: the token its GETs carry, given the one in the
\* headers it built at entry and the one cached now
PollerToken(held, cached) == held

\* a loop that polls first and sleeps between two polls only
LoopBody_pollFirst(first) == IF first THEN "wfo_poll" ELSE "wfo_sleep"

\* wait_for_operation: the first statement of the loop body, in the first
\* and in every later iteration, is time.sleep(retry_seconds)
LoopBody(first) == "wfo_sleep"

\* wait_for_operation without its elif status == 'Failed' branch
AfterPoll_noFailed(r, st) ==
    IF r.kind = "exc" THEN "raise"
    ELSE IF ok(r.status)
         THEN IF r.body # "good" THEN "raise"
              ELSE IF st = "Succeeded" THEN "result"
              ELSE "again"
         ELSE "badstatus"

\* wait_for_operation, after a response to the status GET: "result",
\* "failed", "again", "badstatus" or "raise"
AfterPoll(r, st) ==
    IF r.kind = "exc" THEN "raise"
    ELSE IF ok(r.status)
         THEN IF r.body # "good" THEN "raise"
              ELSE IF st = "Succeeded" THEN "result"
              ELSE IF st = "Failed" THEN "failed"
              ELSE "again"
         ELSE "badstatus"

\* -------------------------------------------------------------- dispatcher
\* call_powerbi_tool forgetting to test query
RequiredArgs_noQuery(name) ==
    CASE name = "list_datasets" -> {"workspace_id"}
      [] name = "get_model_definition" -> {"workspace_id", "dataset_id"}
      [] name = "execute_dax_query" -> {"workspace_id", "dataset_id"}
      [] OTHER -> {}

\* the arguments call_powerbi_tool requires of each tool (if not ...)
RequiredArgs(name) ==
    CASE name = "list_datasets" -> {"workspace_id"}
      [] name = "get_model_definition" -> {"workspace_id", "dataset_id"}
      [] name = "execute_dax_query" -> {"workspace_id", "dataset_id", "query"}
      [] OTHER -> {}

\* the arguments named in the text of the tool's "... required for" error
NamedInError(name) ==
    CASE name = "list_datasets" -> {"workspace_id"}
      [] name = "get_model_definition" -> {"workspace_id", "dataset_id"}
      [] name = "execute_dax_query" -> {"workspace_id", "dataset_id", "query"}
      [] OTHER -> {}

\* not arguments.get(x): absent and empty are both falsy
MissingArgs(name, a) == {x \in RequiredArgs(name) : a[x] # "val"}

\* the two envelope shapes; text/message is [isErr, msg]: isErr says the
\* text is an "Error: ..." string, named lists the arguments the text names
ContentEnvelope(isErr, msg) ==
    [shape |-> "content", items |-> 1, isErr |-> isErr, msg |-> msg, named |-> {}]
ErrorEnvelope(msg, named) ==
    [shape |-> "error", items |-> 0, isErr |-> TRUE, msg |-> msg, named |-> named]
NoResult == [shape |-> "none", items |-> 0, isErr |-> FALSE, msg |-> NoMsg, named |-> {}]
\* call_powerbi_tool without its except branch: the exception escapes
RaisedEnvelope_escapes ==
    [shape |-> "exception", items |-> 0, isErr |-> TRUE,
     msg |-> Msg("exception", 0), named |-> {}]

\* an exception raised anywhere below call_powerbi_tool's try block
RaisedEnvelope == ErrorEnvelope(Msg("Error calling tool", 0), {})

\* list_workspaces / list_datasets / execute_dax_query, given what
\* make_request returned, and get_model_definition given the result dict:
\* the envelope call_powerbi_tool returns
ToolEnvelope(res) ==
    IF res.error THEN ContentEnvelope(TRUE, res.msg)
    ELSE IF ~res.usable THEN RaisedEnvelope
    ELSE ContentEnvelope(FALSE, Msg("formatted", 0))

\* test_connection without its else branch
TestConnectionEnvelope_always(got) ==
    ContentEnvelope(FALSE, Msg("Authentication successful!", 0))

\* test_connection: the fixed success or failure string
TestConnectionEnvelope(got) ==
    ContentEnvelope(FALSE, Msg(IF got THEN "Authentication successful!"
                                      ELSE "Authentication failed!", 0))

\* call_powerbi_tool before the tool function runs: the envelope it returns
\* at once, or NoResult when the tool function is entered
Validate(name, a) ==
    IF name \notin ToolNames
    THEN ErrorEnvelope(Msg("Unknown tool", 0), {})
    ELSE IF MissingArgs(name, a) # {}
         THEN ErrorEnvelope(Msg("required", 0), NamedInError(name))
         ELSE NoResult

\* first position inside the tool function
EntryPc(name) ==
    CASE name = "get_model_definition" -> "gmd_ensure"
      [] name = "test_connection" -> "tc_get_token"
      [] OTHER -> "mr_ensure"

\* ------------------------------------------------------------------ history
NoStats ==
    [nTarget |-> 0,     \* requests make_request sent to its url
     nForced |-> 0,     \* get_access_token calls made by make_request on a 401
     nIdPost |-> 0,     \* POSTs to the identity endpoint
     nExchange |-> 0,   \* get_access_token calls
     lastExchange |-> "none",  \* what it returned: "ok" / "failed"
     idResp |-> "none",  \* answer of the identity endpoint ("nocall": not asked)
     nPlat |-> 0,       \* requests sent to platform endpoints
     n401 |-> 0,        \* platform responses with status 401
     first |-> 0,       \* status of make_request's first response
     last |-> 0,        \* status of make_request's last response
     forcedTok |-> NoToken,  \* token the forced exchange obtained
     retryTok |-> NoToken,   \* token the retried request carried
     nSleep |-> 0, nPoll |-> 0, nResult |-> 0,
     cachedAtEnsure |-> FALSE, \* ensure_token found a token cached
     tokenFailed |-> FALSE,    \* ensure_token returned False
     overCached |-> FALSE,     \* an exchange not forced by a 401 was made
                               \* while a token was cached
     lastOp |-> "none",        \* status field read by the last poll
     resultBody |-> "none",    \* body of a successful /result response
     healthy |-> FALSE,        \* the call began after the remote side recovered
     post |-> 0,               \* status of the response to get_model_definition's POST
     entered |-> FALSE,        \* get_model_definition called wait_for_operation
     entryTok |-> NoToken,     \* TOKEN when wait_for_operation built its headers
     sentTok |-> NoToken]      \* token the poller's last GET carried

\* the methods a request to the main endpoint may name
Methods == {"list_tools", "call_tool", "test_connection", "unknown_method"}

\* the HTTP reply of mcp_endpoint: status code, and whether the body
\* carries the name of the requested method
Reply(method, status, echo) == [method |-> method, status |-> status, echo |-> echo]
NoReply == Reply("", 0, FALSE)

\* the formatting functions are not running
NoInput == [fn |-> "none", parts |-> <<>>, value |-> <<>>, present |-> FALSE,
            status |-> 0]
NoOutput == [fixed |-> "none", count |-> 0, lines |-> <<>>]

Idle(p) == pc[p] \in {"idle", "done"}

\* railway_app.py declares its handlers async def and calls the blocking
\* tool code directly, so the event loop runs one handler at a time; the
\* other variants run handlers on worker threads
CanRun(p) ==
    /\ p \in active
    /\ variant = "railway" => \A q \in Procs \ {p} : Idle(q)

TypeOK ==
    /\ variant \in Variants
    /\ env \subseteq CredNames
    /\ active \subseteq Procs
    /\ TOKEN \in Tokens \cup {NoToken}
    /\ tool \in [Procs -> RequestNames]
    /\ args \in [Procs -> ArgBags]
    /\ hdr \in [Procs -> Tokens \cup {NoToken}]
    /\ response \in [Procs -> Statuses \cup {0}]
    /\ retries \in [Procs -> 0..(PollCap + 1)]

Init ==
    /\ variant \in Variants
    /\ env \in SUBSET CredNames
    /\ active = {1}
    /\ TOKEN = NoToken
    /\ pc = [p \in Procs |-> "idle"]
    /\ tool = [p \in Procs |-> "unknown_tool"]
    /\ args = [p \in Procs |-> [x \in ArgNames |-> "absent"]]
    /\ hdr = [p \in Procs |-> NoToken]
    /\ response = [p \in Procs |-> 0]
    /\ retries = [p \in Procs |-> 0]
    /\ result = [p \in Procs |-> NoResult]
    /\ stats = [p \in Procs |-> NoStats]
    /\ reply = [p \in Procs |-> NoReply]
    /\ platform = [healthy |-> FALSE, valid |-> {}]
    /\ idp = [all |-> {}, last |-> NoToken]
    /\ fin = NoInput
    /\ fout = NoOutput

\* return from call_powerbi_tool with envelope e; mcp_endpoint returns it
\* with status 200
Finish(p, e) ==
    /\ pc' = [pc EXCEPT ![p] = "done"]
    /\ result' = [result EXCEPT ![p] = e]
    /\ reply' = [reply EXCEPT ![p] = Reply("call_tool", 200, FALSE)]

\* mcp_endpoint -> call_powerbi_tool(tool_name, arguments)
Call(p, name, a) ==
    /\ pc[p] = "idle"
    /\ CanRun(p)
    /\ tool' = [tool EXCEPT ![p] = name]
    /\ args' = [args EXCEPT ![p] = a]
    /\ hdr' = [hdr EXCEPT ![p] = NoToken]
    /\ response' = [response EXCEPT ![p] = 0]
    /\ retries' = [retries EXCEPT ![p] = 0]
    /\ stats' = [stats EXCEPT ![p] = [NoStats EXCEPT !.healthy = platform.healthy]]
    /\ IF Validate(name, a) # NoResult
       THEN Finish(p, Validate(name, a))
       ELSE /\ pc' = [pc EXCEPT ![p] = EntryPc(name)]
            /\ result' = [result EXCEPT ![p] = NoResult]
            /\ reply' = [reply EXCEPT ![p] = NoReply]
    /\ UNCHANGED <<frame, platform, idp, TOKEN>>

\* add d to field f of p's history
Bump(st, f, d) == [st EXCEPT ![f] = @ + d]

\* ensure_token() at the head of make_request, get_model_definition and
\* wait_for_operation: the test "if not TOKEN"
EnsureToken(p) ==
    /\ pc[p] \in {"mr_ensure", "gmd_ensure", "wfo_ensure"}
    /\ CanRun(p)
    /\ IF ensure_token_cached(TOKEN)
       THEN /\ pc' = [pc EXCEPT ![p] =
                        CASE pc[p] = "mr_ensure" -> "mr_send"
                          [] pc[p] = "gmd_ensure" -> "gmd_post"
                          [] OTHER -> LoopBody(TRUE)]
            \* wait_for_operation builds its headers once, at entry
            /\ hdr' = [hdr EXCEPT ![p] = IF pc[p] = "wfo_ensure" THEN TOKEN ELSE @]
            /\ stats' = [stats EXCEPT ![p] =
                   [@ EXCEPT !.cachedAtEnsure = TRUE,
                             !.entryTok = IF pc[p] = "wfo_ensure" THEN TOKEN ELSE @]]
       ELSE /\ pc' = [pc EXCEPT ![p] =
                        CASE pc[p] = "mr_ensure" -> "mr_get_token"
                          [] pc[p] = "gmd_ensure" -> "gmd_get_token"
                          [] OTHER -> "wfo_get_token"]
            /\ UNCHANGED <<hdr, stats>>
    /\ UNCHANGED <<frame, platform, idp, TOKEN, tool, args, response, retries,
                   result, reply>>

\* a caller that goes on whatever get_access_token returned
TokenObtained_ignored(g) == TRUE

\* the callers' test of the value get_access_token / ensure_token returned
\* (if not ensure_token(): return ..., if get_access_token(): ...)
TokenObtained(g) == g.ret

\* what the caller of get_access_token does with a False return
TokenFailure(p) ==
    CASE pc[p] = "mr_get_token" -> ContentEnvelope(TRUE, Msg("Failed to obtain access token", 0))
      [] pc[p] = "gmd_get_token" -> ContentEnvelope(TRUE, Msg("Failed to obtain access token", 0))
      [] pc[p] = "wfo_get_token" -> ContentEnvelope(TRUE, Msg("Failed to obtain access token", 0))
      [] pc[p] = "tc_get_token" -> TestConnectionEnvelope(FALSE)
      \* make_request after a 401: falls through to the HTTP error of the
      \* response it holds
      [] OTHER -> ContentEnvelope(TRUE, Msg("HTTP", response[p]))

\* get_access_token(), called by ensure_token, by make_request after a 401
\* (pc mr_refresh) and by test_connection; r is the identity endpoint's answer
GetAccessToken(p, r) ==
    /\ pc[p] \in {"mr_get_token", "gmd_get_token", "wfo_get_token",
                  "tc_get_token", "mr_refresh"}
    /\ CanRun(p)
    /\ LET g == get_access_token(variant, env, TOKEN, r)
           forced == pc[p] = "mr_refresh"
       IN /\ TOKEN' = g.TOKEN
          /\ stats' = [stats EXCEPT ![p] =
                 [@ EXCEPT !.nExchange = @ + 1,
                           !.nIdPost = @ + (IF g.net THEN 1 ELSE 0),
                           !.lastExchange = IF g.ret THEN "ok" ELSE "failed",
                           !.idResp = IF g.net THEN r.kind ELSE "nocall",
                           !.nForced = @ + (IF forced THEN 1 ELSE 0),
                           !.forcedTok = IF forced /\ g.ret THEN g.TOKEN ELSE @,
                           !.tokenFailed = @ \/ (~g.ret /\ ~forced),
                           !.entryTok = IF pc[p] = "wfo_get_token" /\ g.ret
                                        THEN g.TOKEN ELSE @,
                           !.overCached = @ \/ (TOKEN # NoToken /\ ~forced)]]
          /\ idp' = IF g.net /\ r.kind = "ok"
                    THEN [all |-> idp.all \cup {r.tok}, last |-> r.tok]
                    ELSE idp
          /\ platform' = IF platform.healthy /\ g.net /\ r.kind = "ok"
                         THEN [platform EXCEPT !.valid = @ \cup {r.tok}]
                         ELSE platform
          /\ IF TokenObtained(g)
             THEN IF pc[p] = "tc_get_token"
                  THEN /\ Finish(p, TestConnectionEnvelope(TRUE))
                       /\ hdr' = hdr
                  ELSE /\ pc' = [pc EXCEPT ![p] =
                                   CASE pc[p] = "mr_get_token" -> "mr_send"
                                     [] pc[p] = "gmd_get_token" -> "gmd_post"
                                     [] pc[p] = "wfo_get_token" -> LoopBody(TRUE)
                                     [] OTHER -> "mr_retry"]
                       /\ hdr' = [hdr EXCEPT ![p] =
                                    IF pc[p] = "wfo_get_token" THEN g.TOKEN ELSE @]
                       /\ UNCHANGED <<result, reply>>
             ELSE /\ Finish(p, TokenFailure(p))
                  /\ hdr' = hdr
    /\ UNCHANGED <<frame, tool, args, response, retries>>

\* make_request: build the headers from TOKEN, send the request, read the
\* first response
MrSend(p, r) ==
    /\ pc[p] = "mr_send"
    /\ CanRun(p)
    /\ hdr' = [hdr EXCEPT ![p] = TOKEN]
    /\ response' = [response EXCEPT ![p] = r.status]
    /\ stats' = [stats EXCEPT ![p] =
           [@ EXCEPT !.nTarget = @ + 1, !.nPlat = @ + 1,
                     !.n401 = @ + (IF r.status = 401 THEN 1 ELSE 0),
                     !.first = r.status, !.last = r.status]]
    /\ IF AfterFirstResponse(r) = "refresh"
       THEN /\ pc' = [pc EXCEPT ![p] = "mr_refresh"]
            /\ UNCHANGED <<result, reply>>
       ELSE Finish(p, ToolEnvelope(RequestResult(r)))
    /\ UNCHANGED <<frame, platform, idp, TOKEN, tool, args, retries>>

\* make_request: after a successful forced exchange, put the new TOKEN in
\* the headers and send the same request once more
MrRetry(p, r) ==
    /\ pc[p] = "mr_retry"
    /\ CanRun(p)
    /\ hdr' = [hdr EXCEPT ![p] = TOKEN]
    /\ response' = [response EXCEPT ![p] = IF r.kind = "exc" THEN @ ELSE r.status]
    /\ stats' = [stats EXCEPT ![p] =
           [@ EXCEPT !.nTarget = @ + 1, !.nPlat = @ + 1,
                     !.n401 = @ + (IF r.status = 401 THEN 1 ELSE 0),
                     !.last = r.status, !.retryTok = TOKEN]]
    /\ Finish(p, ToolEnvelope(RetryResult(response[p], r)))
    /\ UNCHANGED <<frame, platform, idp, TOKEN, tool, args, retries>>

\* get_model_definition, after the response to its POST (retryAfterOK: the
\* Retry-After header, if any, parses as an integer): "raise", "poll",
\* "body" or "error"
AfterPost(r, retryAfterOK) ==
    IF r.kind = "exc" THEN "raise"
    ELSE IF r.status = 202 THEN (IF retryAfterOK THEN "poll" ELSE "raise")
    ELSE IF ok(r.status) THEN (IF r.body = "unparsable" THEN "raise" ELSE "body")
    ELSE "error"

\* get_model_definition: requests.post with the cached TOKEN, no make_request
GmdPost(p, r, retryAfterOK) ==
    /\ pc[p] = "gmd_post"
    /\ CanRun(p)
    /\ hdr' = [hdr EXCEPT ![p] = TOKEN]
    /\ response' = [response EXCEPT ![p] = r.status]
    /\ stats' = [stats EXCEPT ![p] =
           [@ EXCEPT !.nPlat = @ + 1,
                     !.n401 = @ + (IF r.status = 401 THEN 1 ELSE 0),
                     !.post = r.status,
                     !.entered = AfterPost(r, retryAfterOK) = "poll"]]
    /\ LET a == AfterPost(r, retryAfterOK)
       IN CASE a = "raise" -> Finish(p, RaisedEnvelope)
            [] a = "poll" -> /\ pc' = [pc EXCEPT ![p] = "wfo_ensure"]
                             /\ UNCHANGED <<result, reply>>
            [] a = "body" -> Finish(p, ToolEnvelope(JsonBody(r.body = "good")))
            [] OTHER -> Finish(p, ContentEnvelope(TRUE, Msg("HTTP", r.status)))
    /\ UNCHANGED <<frame, platform, idp, TOKEN, tool, args, retries>>

\* wait_for_operation: time.sleep(retry_seconds)
WfoSleep(p) ==
    /\ pc[p] = "wfo_sleep"
    /\ CanRun(p)
    /\ retries[p] < PollCap
    /\ pc' = [pc EXCEPT ![p] = "wfo_poll"]
    /\ stats' = [stats EXCEPT ![p] = Bump(@, "nSleep", 1)]
    /\ UNCHANGED <<frame, platform, idp, TOKEN, tool, args, hdr, response,
                   retries, result, reply>>

\* wait_for_operation: GET location_url with the headers built at entry,
\* st is the status field of the body
WfoPoll(p, r, st) ==
    /\ pc[p] = "wfo_poll"
    /\ CanRun(p)
    /\ response' = [response EXCEPT ![p] = r.status]
    /\ stats' = [stats EXCEPT ![p] =
           [@ EXCEPT !.nPoll = @ + 1, !.nPlat = @ + 1,
                     !.sentTok = PollerToken(hdr[p], TOKEN),
                     !.n401 = @ + (IF r.status = 401 THEN 1 ELSE 0),
                     !.lastOp = IF r.kind = "http" /\ ok(r.status) /\ r.body = "good"
                                THEN st ELSE "none"]]
    /\ LET a == AfterPoll(r, st)
       IN CASE a = "raise" ->
                 Finish(p, RaisedEnvelope) /\ retries' = retries
            [] a = "result" ->
                 /\ pc' = [pc EXCEPT ![p] = "wfo_result"]
                 /\ UNCHANGED <<result, reply, retries>>
            [] a = "failed" ->
                 /\ Finish(p, ToolEnvelope(ErrDict("Operation failed", 0)))
                 /\ retries' = retries
            [] a = "badstatus" ->
                 /\ Finish(p, ToolEnvelope(ErrDict("Failed to check status", r.status)))
                 /\ retries' = retries
            [] OTHER ->
                 /\ retries' = [retries EXCEPT ![p] = @ + 1]
                 /\ IF PollAgain(variant, retries[p] + 1)
                    THEN /\ pc' = [pc EXCEPT ![p] = LoopBody(FALSE)]
                         /\ UNCHANGED <<result, reply>>
                    ELSE Finish(p, ToolEnvelope(ErrDict("Operation timed out", 0)))
    /\ UNCHANGED <<frame, platform, idp, TOKEN, tool, args, hdr>>

\* wait_for_operation: GET location_url/result after status Succeeded
WfoResult(p, r) ==
    /\ pc[p] = "wfo_result"
    /\ CanRun(p)
    /\ response' = [response EXCEPT ![p] = r.status]
    /\ stats' = [stats EXCEPT ![p] =
           [@ EXCEPT !.nResult = @ + 1, !.nPlat = @ + 1,
                     !.sentTok = PollerToken(hdr[p], TOKEN),
                     !.n401 = @ + (IF r.status = 401 THEN 1 ELSE 0),
                     !.resultBody = IF r.kind = "http" /\ ok(r.status)
                                    THEN r.body ELSE "none"]]
    /\ IF r.kind = "exc" \/ (ok(r.status) /\ r.body = "unparsable")
       THEN Finish(p, RaisedEnvelope)
       ELSE IF ok(r.status)
            THEN Finish(p, ToolEnvelope(JsonBody(r.body = "good")))
            ELSE Finish(p, ToolEnvelope(ErrDict("Failed to get result", 0)))
    /\ UNCHANGED <<frame, platform, idp, TOKEN, tool, args, hdr, retries>>

\* mcp_endpoint for a request whose method is not call_tool: list_tools
\* returns the catalog; function_app.py also knows test_connection and
\* wraps its text like a tool's; any other method is refused
KnownMethods(v) ==
    {"list_tools", "call_tool"} \cup (IF v = "function" THEN {"test_connection"} ELSE {})

\* the refusal of an unknown method: function_app.py returns a 400
\* response; railway_app.py raises HTTPException(400) inside the try block
\* whose "except Exception" turns it into HTTPException(500, str(e))
UnknownMethodStatus(v) == IF v = "railway" THEN 500 ELSE 400

McpDirect(p, method) ==
    /\ pc[p] = "idle"
    /\ CanRun(p)
    /\ hdr' = [hdr EXCEPT ![p] = NoToken]
    /\ response' = [response EXCEPT ![p] = 0]
    /\ retries' = [retries EXCEPT ![p] = 0]
    /\ stats' = [stats EXCEPT ![p] = [NoStats EXCEPT !.healthy = platform.healthy]]
    /\ args' = [args EXCEPT ![p] = [x \in ArgNames |-> "absent"]]
    /\ result' = [result EXCEPT ![p] = NoResult]
    /\ IF method = "test_connection" /\ method \in KnownMethods(variant)
       THEN /\ tool' = [tool EXCEPT ![p] = "test_connection"]
            /\ pc' = [pc EXCEPT ![p] = "tc_get_token"]
            /\ reply' = [reply EXCEPT ![p] = NoReply]
       ELSE /\ tool' = [tool EXCEPT ![p] = "unknown_tool"]
            /\ pc' = [pc EXCEPT ![p] = "idle"]
            /\ reply' = [reply EXCEPT ![p] =
                   IF method \in KnownMethods(variant)
                   THEN Reply(method, 200, FALSE)
                   ELSE Reply(method, UnknownMethodStatus(variant), TRUE)]
    /\ UNCHANGED <<frame, platform, idp, TOKEN>>

\* mcp_endpoint: return result; the handler is free for the next request
Return(p) ==
    /\ pc[p] = "done"
    /\ CanRun(p)
    /\ pc' = [pc EXCEPT ![p] = "idle"]
    /\ tool' = [tool EXCEPT ![p] = "unknown_tool"]
    /\ args' = [args EXCEPT ![p] = [x \in ArgNames |-> "absent"]]
    /\ hdr' = [hdr EXCEPT ![p] = NoToken]
    /\ response' = [response EXCEPT ![p] = 0]
    /\ retries' = [retries EXCEPT ![p] = 0]
    /\ result' = [result EXCEPT ![p] = NoResult]
    /\ stats' = [stats EXCEPT ![p] = NoStats]
    /\ UNCHANGED <<frame, platform, idp, TOKEN, reply>>

\* the remote side recovers: from now on the identity endpoint issues
\* tokens and the platform accepts the tokens in v and those issued later
Recover(v) ==
    /\ ~platform.healthy
    /\ env = CredNames
    /\ \A p \in Procs : pc[p] = "idle"
    /\ platform' = [healthy |-> TRUE, valid |-> v]
    /\ UNCHANGED <<frame, TOKEN, pc, tool, args, hdr, response, retries,
                   result, stats, reply, idp>>

Next ==
    \/ \E p \in Procs, name \in RequestNames, a \in ArgBags : Call(p, name, a)
    \/ \E p \in Procs : EnsureToken(p)
    \/ \E p \in Procs, m \in Methods \ {"call_tool"} : McpDirect(p, m)
    \/ \E p \in Procs : EnsureToken(p)
    \/ \E p \in Procs, r \in IdAnswers : GetAccessToken(p, r)
    \/ \E p \in Procs, r \in PlatAnswers(TOKEN) : MrSend(p, r)
    \/ \E p \in Procs, r \in PlatAnswers(TOKEN) : MrRetry(p, r)
    \/ \E p \in Procs, r \in PlatAnswers(TOKEN), b \in RetryAfterAnswers :
           GmdPost(p, r, b)
    \/ \E p \in Procs : WfoSleep(p)
    \/ \E p \in Procs : \E r \in PlatAnswers(PollerToken(hdr[p], TOKEN)), st \in OpAnswers :
              WfoPoll(p, r, st)
    \/ \E p \in Procs : \E r \in PlatAnswers(PollerToken(hdr[p], TOKEN)) :
              WfoResult(p, r)
    \/ \E p \in Procs : Return(p)
    \/ \E v \in SUBSET Tokens : Recover(v)

Spec == Init /\ [][Next]_vars

\* ===================================================================
\* Properties
\* ===================================================================
Done(p) == pc[p] = "done"

\* C1 (as stated): a make_request call whose first response is 401 performs
\* exactly one forced token exchange and exactly one retry carrying the
\* newly obtained token, and an error after the retry carries the retry's
\* status.
C1_OneRefreshOneRetry ==
    \A p \in Procs :
        (Done(p) /\ stats[p].first = 401) =>
            /\ stats[p].nForced = 1
            /\ stats[p].nTarget = 2
            /\ stats[p].forcedTok \in Tokens
            /\ stats[p].retryTok = stats[p].forcedTok
            /\ (stats[p].last # 0 /\ ~ok(stats[p].last)) =>
                  result[p] = ContentEnvelope(TRUE, Msg("HTTP", stats[p].last))

\* C1 (amended): after a first 401 there is exactly one forced exchange;
\* when it succeeds the request is retried exactly once with the token it
\* obtained and an HTTP failure of the retry is reported with the retry's
\* status; when it fails there is no retry.
C1_OneRefreshRetryIfRefreshed ==
    \A p \in Procs :
        (Done(p) /\ stats[p].first = 401) =>
            /\ stats[p].nForced = 1
            /\ IF stats[p].lastExchange = "ok"
               THEN /\ stats[p].nTarget = 2
                    /\ stats[p].forcedTok \in Tokens
                    /\ stats[p].retryTok = stats[p].forcedTok
                    /\ hdr[p] = stats[p].forcedTok
                    /\ (stats[p].last # 0 /\ ~ok(stats[p].last)) =>
                          result[p] = ContentEnvelope(TRUE, Msg("HTTP", stats[p].last))
               ELSE /\ stats[p].nTarget = 1
                    /\ stats[p].retryTok = NoToken

\* a retry after a first 401 failed with a status other than 401
C1_Witness ==
    \E p \in Procs :
        /\ Done(p) /\ stats[p].first = 401 /\ stats[p].nTarget = 2
        /\ stats[p].last = 500
        /\ result[p] = ContentEnvelope(TRUE, Msg("HTTP", 500))

\* C2: one make_request call sends at most two requests to its url and
\* makes at most one forced exchange; the forced exchange and the second
\* request happen only after a first 401; after the second response, or
\* after a first response that is not a 401, the call is over.
C2_AtMostOneRetry ==
    \A p \in Procs :
        /\ stats[p].nTarget <= 2
        /\ stats[p].nForced <= 1
        /\ stats[p].nForced = 1 => (stats[p].first = 401 /\ stats[p].nTarget >= 1)
        /\ stats[p].nTarget = 2 => (stats[p].nForced = 1 /\ Done(p))
        /\ (stats[p].nTarget >= 1 /\ stats[p].first # 401) =>
              (Done(p) /\ stats[p].nForced = 0 /\ stats[p].nTarget = 1)

\* the retry was answered 401 again and the call ended there
C2_Witness ==
    \E p \in Procs :
        /\ Done(p) /\ stats[p].nTarget = 2 /\ stats[p].last = 401
        /\ result[p] = ContentEnvelope(TRUE, Msg("HTTP", 401))

\* C3: the poller never polls more than max_retries times.
C3_PollsBounded ==
    \A p \in Procs : stats[p].nPoll <= max_retries

\* C4: a get_access_token call whose exchange fails (network exception,
\* non-success status, body without access_token) leaves TOKEN as it was
\* and returns False, which ends the call with a failure result.
C4_FailedExchangeKeepsToken ==
    [][\A p \in Procs :
          (/\ stats'[p].nExchange = stats[p].nExchange + 1
           /\ stats'[p].idResp \in {"exc", "status", "nofield"})
          => /\ TOKEN' = TOKEN
             /\ stats'[p].lastExchange = "failed"
             /\ pc'[p] = "done"
             /\ result'[p] \in
                  {ContentEnvelope(TRUE, Msg("Failed to obtain access token", 0)),
                   ContentEnvelope(TRUE, Msg("HTTP", 401)),
                   TestConnectionEnvelope(FALSE)}]_vars

\* an exchange failed while a token was cached, and the token is still there
C4_Witness ==
    \E p \in Procs :
        /\ Done(p) /\ stats[p].idResp \in {"exc", "status", "nofield"}
        /\ TOKEN \in Tokens

\* C5: with a token cached, ensure_token succeeds (the caller goes on),
\* calls no endpoint and leaves TOKEN unchanged.
C5_EnsureTokenUsesCache ==
    [][\A p \in Procs :
          (/\ pc[p] \in {"mr_ensure", "gmd_ensure", "wfo_ensure"}
           /\ pc'[p] # pc[p]
           /\ TOKEN # NoToken)
          => /\ TOKEN' = TOKEN
             /\ pc'[p] \in {"mr_send", "gmd_post", "wfo_sleep"}
             /\ stats'[p].nIdPost = stats[p].nIdPost
             /\ stats'[p].nExchange = stats[p].nExchange
             /\ stats'[p].nPlat = stats[p].nPlat]_vars

\* ensure_token answered from the cache and the request is about to be sent
C5_Witness ==
    \E p \in Procs :
        /\ pc[p] = "mr_send" /\ stats[p].cachedAtEnsure
        /\ stats[p].nExchange = 0 /\ TOKEN \in Tokens

\* C6: with a credential missing, no endpoint is ever called.
C6_NoNetworkWithoutCredentials ==
    \A p \in Procs :
        env # CredNames =>
            /\ stats[p].nIdPost = 0
            /\ stats[p].nPlat = 0
            /\ stats[p].lastExchange # "ok"

\* C7: a tool call that failed is returned in the error envelope.
C7_FailuresAreErrorEnvelopes ==
    \A p \in Procs :
        (Done(p) /\ (result[p].isErr \/ result[p] = TestConnectionEnvelope(FALSE)))
            => result[p].shape = "error"

\* C8: call_powerbi_tool returns one of the two envelope shapes, a content
\* envelope has exactly one text item, and nothing is returned before the
\* call is over.
C8_TwoEnvelopeShapes ==
    \A p \in Procs :
        /\ Done(p) => /\ result[p].shape \in {"content", "error"}
                      /\ result[p].shape = "content" => result[p].items = 1
        /\ ~Done(p) => result[p] = NoResult

\* an exception raised inside a tool function, after a platform call, came
\* back as the error envelope
C8_Witness ==
    \E p \in Procs :
        /\ Done(p) /\ result[p] = RaisedEnvelope /\ stats[p].nPlat >= 1

\* the required arguments of each tool, as the tool table states them
C9_Required(name) ==
    CASE name = "list_datasets" -> {"workspace_id"}
      [] name = "get_model_definition" -> {"workspace_id", "dataset_id"}
      [] name = "execute_dax_query" -> {"workspace_id", "dataset_id", "query"}
      [] OTHER -> {}

\* C9: a call of a tool with a required argument absent or empty returns at
\* once an error envelope naming every missing argument, calls no endpoint
\* and leaves TOKEN unchanged.
C9_MissingArgumentRejected ==
    [][\A p \in Procs :
          (/\ Idle(p)
           /\ <<tool'[p], args'[p], result'[p], pc'[p]>> # <<tool[p], args[p], result[p], pc[p]>>
           /\ tool'[p] \in ToolNames
           /\ \E x \in C9_Required(tool'[p]) : args'[p][x] # "val")
          => /\ pc'[p] = "done"
             /\ result'[p].shape = "error"
             /\ \A x \in C9_Required(tool'[p]) :
                    args'[p][x] # "val" => x \in result'[p].named
             /\ TOKEN' = TOKEN
             /\ stats'[p].nPlat = 0
             /\ stats'[p].nIdPost = 0]_vars

\* execute_dax_query was called with an empty query and rejected
C9_Witness ==
    \E p \in Procs :
        /\ Done(p) /\ tool[p] = "execute_dax_query"
        /\ args[p] = [x \in ArgNames |-> IF x = "query" THEN "empty" ELSE "val"]
        /\ result[p] = ErrorEnvelope(Msg("required", 0),
                                     {"workspace_id", "dataset_id", "query"})
        /\ stats[p] = NoStats

\* C10: a tool call in which a platform endpoint answered 401 made a forced
\* token exchange.
C10_Every401Refreshes ==
    \A p \in Procs :
        (Done(p) /\ stats[p].n401 >= 1) => stats[p].nForced >= 1

\* C11: a call of one of the five tools with its required arguments, made
\* after the remote side has recovered (the identity endpoint issues valid
\* tokens, the platform accepts valid tokens), succeeds, whatever calls
\* came before and whatever token they left in the cache.
C11_NextCallSucceeds ==
    \A p \in Procs :
        (/\ Done(p)
         /\ stats[p].healthy
         /\ tool[p] \in ToolNames
         /\ \A x \in C9_Required(tool[p]) : args[p][x] = "val")
        => /\ result[p].shape = "content"
           /\ ~result[p].isErr
           /\ result[p].msg.tag # "Authentication failed!"

\* C12 (as stated): get_access_token is called only when no token is
\* cached or when the handler's platform call has just returned 401.
C12_ExchangeOnlyLazily ==
    [][\A p \in Procs :
          stats'[p].nExchange = stats[p].nExchange + 1
          => \/ TOKEN = NoToken
             \/ (pc[p] = "mr_refresh" /\ response[p] = 401)]_vars

\* C12 (amended): get_access_token is called only when no token is cached,
\* when the handler's platform call has just returned 401, or by
\* test_connection, which always exchanges.
C12_ExchangeLazilyOrTest ==
    [][\A p \in Procs :
          stats'[p].nExchange = stats[p].nExchange + 1
          => \/ TOKEN = NoToken
             \/ (pc[p] = "mr_refresh" /\ response[p] = 401)
             \/ tool[p] = "test_connection"]_vars

\* test_connection exchanged while a token was cached and replaced it
C12_Witness ==
    \E p \in Procs :
        /\ Done(p) /\ tool[p] = "test_connection"
        /\ stats[p].overCached /\ stats[p].idResp = "ok"
        /\ TOKEN = idp.last

\* -------------------------------------------------------------------
\* Two handlers at once, requesting tools with all their arguments.  The
\* first handler calls any tool; the second calls list_workspaces and
\* test_connection, which between them reach every call of
\* get_access_token (from ensure_token, after a 401, unconditional).  The
\* remote side may answer anything.
\* -------------------------------------------------------------------
FullBag == [x \in ArgNames |-> "val"]
ConcTools(p) == IF p = 1 THEN ToolNames ELSE {"list_workspaces", "test_connection"}

InitConc ==
    /\ variant \in Variants
    /\ env = CredNames
    /\ active = Procs
    /\ TOKEN = NoToken
    /\ pc = [p \in Procs |-> "idle"]
    /\ tool = [p \in Procs |-> "unknown_tool"]
    /\ args = [p \in Procs |-> [x \in ArgNames |-> "absent"]]
    /\ hdr = [p \in Procs |-> NoToken]
    /\ response = [p \in Procs |-> 0]
    /\ retries = [p \in Procs |-> 0]
    /\ result = [p \in Procs |-> NoResult]
    /\ stats = [p \in Procs |-> NoStats]
    /\ reply = [p \in Procs |-> NoReply]
    /\ platform = [healthy |-> FALSE, valid |-> {}]
    /\ idp = [all |-> {}, last |-> NoToken]
    /\ fin = NoInput
    /\ fout = NoOutput

NextConc ==
    \/ \E p \in Procs : \E name \in ConcTools(p) : Call(p, name, FullBag)
    \/ \E p \in Procs : EnsureToken(p)
    \/ \E p \in Procs, r \in IdAnswers : GetAccessToken(p, r)
    \/ \E p \in Procs, r \in PlatAnswers(TOKEN) : MrSend(p, r)
    \/ \E p \in Procs, r \in PlatAnswers(TOKEN) : MrRetry(p, r)
    \/ \E p \in Procs, r \in PlatAnswers(TOKEN), b \in RetryAfterAnswers :
           GmdPost(p, r, b)
    \/ \E p \in Procs : WfoSleep(p)
    \/ \E p \in Procs : \E r \in PlatAnswers(PollerToken(hdr[p], TOKEN)), st \in OpAnswers :
              WfoPoll(p, r, st)
    \/ \E p \in Procs : \E r \in PlatAnswers(PollerToken(hdr[p], TOKEN)) :
              WfoResult(p, r)
    \/ \E p \in Procs : Return(p)

SpecConc == InitConc /\ [][NextConc]_vars

\* C13: under every interleaving of two handlers the cached token is empty
\* until the first successful exchange and afterwards exactly the value the
\* latest successful exchange returned (the last writer wins, no other
\* value ever appears), and every request a handler has sent to the
\* platform carried a non-empty value issued by a successful exchange.
C13_OneLiveToken ==
    /\ TOKEN = idp.last
    /\ TOKEN \in {NoToken} \cup idp.all
    /\ \A p \in Procs : stats[p].nPlat >= 1 => hdr[p] \in idp.all

\* both handlers found the cache empty, both exchanged, and both sent their
\* request; the cache holds the value of the later exchange
C13_Witness ==
    \E p, q \in Procs :
        /\ p # q
        /\ \A h \in {p, q} :
              /\ ~stats[h].cachedAtEnsure /\ stats[h].nExchange = 1
              /\ stats[h].idResp = "ok" /\ stats[h].nPlat >= 1
        /\ idp.all = Tokens
        /\ TOKEN = idp.last

\* C14: while one handler is in the poller, between two polls, every other
\* handler can take its next step (accept a request, go on with the one it
\* is serving, return).
C14_PollerDoesNotBlockOthers ==
    \A p, q \in Procs :
        (p # q /\ pc[p] \in {"wfo_sleep", "wfo_poll"} /\ q \in active)
            => CanRun(q)

\* ------------------------------------------------------ claims on the poller
\* what a poll that read the status field st leads to, but for the result
\* fetch after Succeeded: Failed ends the call with the error payload and no
\* result fetch, any other status leads to the next sleep and poll with no
\* result fetch, or to the timeout when railway_app.py has no attempt left
C15_FailedOrOther(p) ==
    LET s == stats[p] IN
    /\ s.lastOp = "Failed" =>
          /\ pc[p] = "done"
          /\ s.nResult = 0
          /\ result[p].shape = "content" /\ result[p].isErr
          /\ result[p].msg.tag = "Operation failed"
    /\ s.lastOp \in {"Running", "missing"} =>
          /\ s.nResult = 0
          /\ IF variant = "railway" /\ retries[p] >= 5
             THEN /\ pc[p] = "done"
                  /\ result[p].isErr
                  /\ result[p].msg.tag = "Operation timed out"
             ELSE pc[p] \in {"wfo_sleep", "wfo_poll"}
    /\ s.lastOp = "Succeeded" =>
          /\ pc[p] \in {"wfo_result", "done"}
          /\ s.nResult = (IF pc[p] = "done" THEN 1 ELSE 0)

\* C15 as stated: Succeeded leads to exactly one GET of /result and the
\* call returns the body of that GET; Failed returns the error payload;
\* any other status leads to another poll and no result fetch.
C15_ThreeOutcomes ==
    \A p \in Procs :
        /\ C15_FailedOrOther(p)
        /\ (stats[p].lastOp = "Succeeded" /\ pc[p] = "done") =>
              (~result[p].isErr /\ result[p].msg.tag = "formatted")

\* C15 amended: after Succeeded the call returns the body of the one
\* /result GET exactly when that GET was answered with success and a
\* well-formed body, and an error otherwise.
C15_ThreeOutcomesResultMayFail ==
    \A p \in Procs :
        /\ C15_FailedOrOther(p)
        /\ (stats[p].lastOp = "Succeeded" /\ pc[p] = "done") =>
              /\ stats[p].resultBody = "good" <=>
                    (~result[p].isErr /\ result[p].msg.tag = "formatted")
              /\ stats[p].resultBody # "good" => result[p].isErr

\* a call that polled more than once, read Succeeded and returned the body
C15_Witness ==
    \E p \in Procs :
        /\ pc[p] = "done"
        /\ stats[p].nPoll >= 2
        /\ stats[p].lastOp = "Succeeded"
        /\ stats[p].nResult = 1
        /\ stats[p].resultBody = "good"
        /\ ~result[p].isErr

\* --------------------------------------------- claims on the token's callers
\* C16: a make_request call whose ensure_token returned False sends no
\* request to its url, nor to any platform endpoint, and returns the error
\* value "Failed to obtain access token".
C16_FailFastWithoutToken ==
    \A p \in Procs :
        (/\ tool[p] \in {"list_workspaces", "list_datasets", "execute_dax_query"}
         /\ stats[p].tokenFailed) =>
            /\ stats[p].nTarget = 0
            /\ stats[p].nPlat = 0
            /\ pc[p] = "done"
            /\ result[p].shape = "content" /\ result[p].isErr
            /\ result[p].msg.tag = "Failed to obtain access token"

\* a make_request call that found no token cached, asked the identity
\* endpoint, got no token and returned
C16_Witness ==
    \E p \in Procs :
        /\ tool[p] \in {"list_workspaces", "list_datasets", "execute_dax_query"}
        /\ pc[p] = "done"
        /\ stats[p].tokenFailed
        /\ stats[p].nExchange = 1
        /\ stats[p].idResp \in {"exc", "status", "nofield"}
        /\ stats[p].nTarget = 0

\* C17: test_connection calls get_access_token once and no platform
\* endpoint, and returns the success string exactly when the identity
\* endpoint answered the exchange with a token, the failure string otherwise.
C17_TestConnectionExchangesOnly ==
    \A p \in Procs :
        tool[p] = "test_connection" =>
            /\ stats[p].nPlat = 0 /\ stats[p].nTarget = 0
            /\ stats[p].nExchange <= 1
            /\ pc[p] = "done" =>
                  /\ stats[p].nExchange = 1
                  /\ result[p].shape = "content"
                  /\ result[p].msg.tag =
                        (IF stats[p].idResp = "ok"
                         THEN "Authentication successful!"
                         ELSE "Authentication failed!")

\* a test_connection call whose exchange failed while the token of an
\* earlier call stayed cached
C17_Witness ==
    \E p \in Procs :
        /\ tool[p] = "test_connection" /\ pc[p] = "done"
        /\ stats[p].nExchange = 1
        /\ stats[p].idResp \in {"exc", "status", "nofield"}
        /\ TOKEN # NoToken
        /\ result[p].msg.tag = "Authentication failed!"

\* ------------------------------------------------ claims on the main endpoint
\* C18: a request whose method the endpoint does not know is answered with
\* status 400 and a body that carries the method's name.
C18_UnknownMethodIsClientError ==
    \A p \in Procs :
        reply[p].method \in Methods \ KnownMethods(variant) =>
            /\ reply[p].status = 400
            /\ reply[p].echo

\* ------------------------------------------------------ formatting functions
\* get_model_definition (from "parts = ..." on) and list_workspaces /
\* list_datasets (from "workspaces = ..." on) are pure functions of the
\* decoded body; they are checked on their own, over bounded bodies.
MaxParts == 3
MaxItems == 3
MaxResults == 3
MaxBody == 202

\* a path is the sequence of its dot-separated pieces, the dots kept with
\* the piece they begin: "a.tmdl.bak" is <<"a", ".tmdl", ".bak">>
Paths == {<<"a", ".tmdl">>, <<"b", ".tmdl">>, <<"a", ".json">>,
          <<"a", ".tmdl", ".bak">>}

\* a payload is a text that is or is not base64, and the bytes it encodes:
\* 65 is "A", 195 169 is the two-byte UTF-8 form of "e-acute", 195 alone is
\* a truncated character; the empty text is what part.get("payload", "")
\* yields for a part without payload
Payloads ==
    {[b64 |-> TRUE, bytes |-> <<>>], [b64 |-> TRUE, bytes |-> <<65>>],
     [b64 |-> TRUE, bytes |-> <<195, 169>>], [b64 |-> TRUE, bytes |-> <<195>>],
     [b64 |-> FALSE, bytes |-> <<>>]}

PartSet == [path : Paths, payload : Payloads]
ItemSet == [name : {"Sales", "HR"}, id : {"g1", "g2"}]
\* an element of the results array of executeQueries: it has no "tables"
\* key, or the key holds an empty list or one of two table lists
ResultSet == [tables : {"absent", "empty", "T1", "T2"}]

\* response.text of n characters, each character its own position
BodyText(n) == [i \in 1..n |-> i]

SeqsUpTo(S, n) == UNION {[1..k -> S] : k \in 0..n}

\* the bodies the formatting functions are applied to
FmtInputs ==
    {[fn |-> "parts", parts |-> ps, value |-> <<>>, present |-> FALSE,
      status |-> 0] :
        ps \in SeqsUpTo(PartSet, MaxParts)}
    \cup {[fn |-> f, parts |-> <<>>, value |-> v, present |-> TRUE,
            status |-> 0] :
            f \in {"workspaces", "datasets"}, v \in SeqsUpTo(ItemSet, MaxItems)}
    \cup {[fn |-> f, parts |-> <<>>, value |-> <<>>, present |-> FALSE,
            status |-> 0] :
            f \in {"workspaces", "datasets", "dax"}}
    \cup {[fn |-> "dax", parts |-> <<>>, value |-> v, present |-> TRUE,
            status |-> 0] :
            v \in SeqsUpTo(ResultSet, MaxResults)}
    \cup {[fn |-> "error", parts |-> <<>>, value |-> BodyText(n),
            present |-> TRUE, status |-> st] :
            n \in 0..MaxBody, st \in {x \in Statuses : ~ok(x)}}

\* a test that finds the extension anywhere in the path
EndsWith_contains(path, ext) == \E i \in 1..Len(path) : path[i] = ext

\* path.endswith(ext)
EndsWith(path, ext) == Len(path) >= 1 /\ path[Len(path)] = ext

\* bytes.decode('utf-8') from position i on, text the characters decoded
\* so far: the characters, or a failure
RECURSIVE Utf8Decode(_, _, _)
Utf8Decode(bytes, i, text) ==
    IF i > Len(bytes) THEN [ok |-> TRUE, text |-> text]
    ELSE IF bytes[i] < 128
         THEN Utf8Decode(bytes, i + 1, Append(text, "A"))
         ELSE IF bytes[i] = 195 /\ i < Len(bytes) /\ bytes[i + 1] = 169
              THEN Utf8Decode(bytes, i + 2, Append(text, "e-acute"))
              ELSE [ok |-> FALSE, text |-> <<>>]

\* base64.b64decode(payload).decode('utf-8'): either step may raise
DecodePayload(payload) ==
    IF ~payload.b64 THEN [ok |-> FALSE, text |-> <<>>]
    ELSE Utf8Decode(payload.bytes, 1, <<>>)

\* what the loop adds to output for one part: a banner with the path and
\* the content, or the "Error decoding" note
Section(path, text) == [kind |-> "section", path |-> path, content |-> text]
Note(path) == [kind |-> "note", path |-> path, content |-> <<>>]

\* the loop "for part in parts" from part i on
RECURSIVE FormatParts(_, _, _)
FormatParts(parts, i, out) ==
    IF i > Len(parts) THEN out
    ELSE IF ~EndsWith(parts[i].path, ".tmdl")
         THEN FormatParts(parts, i + 1, out)
         ELSE LET d == DecodePayload(parts[i].payload)
              IN FormatParts(parts, i + 1,
                     Append(out, IF d.ok THEN Section(parts[i].path, d.text)
                                 ELSE Note(parts[i].path)))

\* get_model_definition from "if not parts" on
FormatDefinition(parts) ==
    IF parts = <<>>
    THEN [fixed |-> "No model definition found", count |-> 0, lines |-> <<>>]
    ELSE [fixed |-> "header", count |-> 0, lines |-> FormatParts(parts, 1, <<>>)]

\* a loop that puts each bullet before the ones written so far
RECURSIVE Bullets_prepend(_, _, _)
Bullets_prepend(items, i, out) ==
    IF i > Len(items) THEN out
    ELSE Bullets_prepend(items, i + 1,
             <<[kind |-> "bullet", name |-> items[i].name, id |-> items[i].id]>> \o out)

\* the loop "for ws in workspaces" / "for ds in datasets" from item i on
RECURSIVE Bullets(_, _, _)
Bullets(items, i, out) ==
    IF i > Len(items) THEN out
    ELSE Bullets(items, i + 1,
             Append(out, [kind |-> "bullet", name |-> items[i].name,
                          id |-> items[i].id]))

\* list_workspaces / list_datasets from result.get("value", []) on
FormatList(fn, present, value) ==
    LET items == IF present THEN value ELSE <<>>
    IN IF items = <<>>
       THEN [fixed |-> IF fn = "workspaces" THEN "No workspaces found"
                       ELSE "No datasets found in this workspace",
             count |-> 0, lines |-> <<>>]
       ELSE [fixed |-> "header", count |-> Len(items),
             lines |-> Bullets(items, 1, <<>>)]

\* json.dumps(tables, indent=2): the text of a table list
JsonText(tables) == [kind |-> "json", of |-> tables]

\* a function that returns the tables of the last element
FormatDax_last(present, value) ==
    LET results == IF present THEN value ELSE <<>>
    IN IF results # <<>> /\ results[Len(results)].tables # "absent"
       THEN [fixed |-> "json", count |-> 0,
             lines |-> <<JsonText(results[Len(results)].tables)>>]
       ELSE [fixed |-> "No data returned", count |-> 0, lines |-> <<>>]

\* execute_dax_query from result.get("results", []) on
FormatDax(present, value) ==
    LET results == IF present THEN value ELSE <<>>
    IN IF results # <<>> /\ results[1].tables # "absent"
       THEN [fixed |-> "json", count |-> 0,
             lines |-> <<JsonText(results[1].tables)>>]
       ELSE [fixed |-> "No data returned", count |-> 0, lines |-> <<>>]

\* a slice that keeps the whole text
Slice_whole(text, n) == text

\* text[:n]
Slice(text, n) == IF Len(text) <= n THEN text ELSE SubSeq(text, 1, n)

\* make_request: the error it returns for a response that is not ok,
\* f"HTTP {response.status_code}: {response.text[:200]}"
HttpError(status, text) == [status |-> status, text |-> Slice(text, 200)]

InitFmt ==
    /\ variant = "railway"
    /\ env = CredNames
    /\ active = {}
    /\ TOKEN = NoToken
    /\ pc = [p \in Procs |-> "idle"]
    /\ tool = [p \in Procs |-> "unknown_tool"]
    /\ args = [p \in Procs |-> [x \in ArgNames |-> "absent"]]
    /\ hdr = [p \in Procs |-> NoToken]
    /\ response = [p \in Procs |-> 0]
    /\ retries = [p \in Procs |-> 0]
    /\ result = [p \in Procs |-> NoResult]
    /\ stats = [p \in Procs |-> NoStats]
    /\ reply = [p \in Procs |-> NoReply]
    /\ platform = [healthy |-> FALSE, valid |-> {}]
    /\ idp = [all |-> {}, last |-> NoToken]
    /\ fin \in FmtInputs
    /\ fout = NoOutput

RunFormatDefinition ==
    /\ fin.fn = "parts"
    /\ fout = NoOutput
    /\ fout' = FormatDefinition(fin.parts)
    /\ UNCHANGED <<variant, env, active, TOKEN, pc, tool, args, hdr, response,
                   retries, result, stats, reply, platform, idp, fin>>

RunFormatList ==
    /\ fin.fn \in {"workspaces", "datasets"}
    /\ fout = NoOutput
    /\ fout' = FormatList(fin.fn, fin.present, fin.value)
    /\ UNCHANGED <<variant, env, active, TOKEN, pc, tool, args, hdr, response,
                   retries, result, stats, reply, platform, idp, fin>>

RunFormatDax ==
    /\ fin.fn = "dax"
    /\ fout = NoOutput
    /\ fout' = FormatDax(fin.present, fin.value)
    /\ UNCHANGED <<variant, env, active, TOKEN, pc, tool, args, hdr, response,
                   retries, result, stats, reply, platform, idp, fin>>

RunHttpError ==
    /\ fin.fn = "error"
    /\ fout = NoOutput
    /\ LET e == HttpError(fin.status, fin.value)
       IN fout' = [fixed |-> "HTTP", count |-> e.status, lines |-> e.text]
    /\ UNCHANGED <<variant, env, active, TOKEN, pc, tool, args, hdr, response,
                   retries, result, stats, reply, platform, idp, fin>>

NextFmt == RunFormatDefinition \/ RunFormatList \/ RunFormatDax \/ RunHttpError

SpecFmt == InitFmt /\ [][NextFmt]_vars

\* the parts whose path ends in .tmdl
C19_IsTmdl(part) == part.path[Len(part.path)] = ".tmdl"
\* the payloads that are base64 of UTF-8 text, and the text
C19_Decodes(payload) ==
    payload.b64 /\ payload.bytes \in {<<>>, <<65>>, <<195, 169>>}
C19_Text(payload) ==
    CASE payload.bytes = <<65>> -> <<"A">>
      [] payload.bytes = <<195, 169>> -> <<"e-acute">>
      [] OTHER -> <<>>

\* C19: the output of get_model_definition for a non-empty parts list holds,
\* in input order, one entry per part whose path ends in .tmdl and nothing
\* for the other parts; the entry is the banner with the path and the
\* decoded content, or, for a payload that does not decode, only the error
\* note for that part.
C19_OneSectionPerTmdlPart ==
    (fin.fn = "parts" /\ fout # NoOutput /\ fin.parts # <<>>) =>
        LET tm == SelectSeq(fin.parts, C19_IsTmdl)
        IN /\ fout.fixed = "header"
           /\ Len(fout.lines) = Len(tm)
           /\ \A i \in 1..Len(tm) :
                 /\ fout.lines[i].path = tm[i].path
                 /\ IF C19_Decodes(tm[i].payload)
                    THEN /\ fout.lines[i].kind = "section"
                         /\ fout.lines[i].content = C19_Text(tm[i].payload)
                    ELSE /\ fout.lines[i].kind = "note"
                         /\ fout.lines[i].content = <<>>

\* a part that does not decode, then a part of another kind, then a part
\* that decodes: a note and a section
C19_Witness ==
    /\ fin.fn = "parts" /\ Len(fin.parts) = 3
    /\ C19_IsTmdl(fin.parts[1]) /\ ~C19_Decodes(fin.parts[1].payload)
    /\ ~C19_IsTmdl(fin.parts[2])
    /\ C19_IsTmdl(fin.parts[3]) /\ C19_Decodes(fin.parts[3].payload)
    /\ fout # NoOutput
    /\ Len(fout.lines) = 2
    /\ fout.lines[1].kind = "note" /\ fout.lines[2].kind = "section"

\* C20: list_workspaces and list_datasets turn a collection of n >= 1 items
\* into a header with the count n and n bullets "name (ID: id)" in the
\* order of the response, and an empty or absent collection into the fixed
\* message of the tool.
C20_CountHeaderAndBullets ==
    (fin.fn \in {"workspaces", "datasets"} /\ fout # NoOutput) =>
        IF fin.present /\ Len(fin.value) >= 1
        THEN /\ fout.fixed = "header"
             /\ fout.count = Len(fin.value)
             /\ Len(fout.lines) = Len(fin.value)
             /\ \A i \in 1..Len(fin.value) :
                   /\ fout.lines[i].kind = "bullet"
                   /\ fout.lines[i].name = fin.value[i].name
                   /\ fout.lines[i].id = fin.value[i].id
        ELSE /\ fout.fixed = (IF fin.fn = "workspaces" THEN "No workspaces found"
                              ELSE "No datasets found in this workspace")
             /\ fout.lines = <<>>

\* a list of three items, not all alike, formatted
C20_Witness ==
    /\ fin.fn \in {"workspaces", "datasets"}
    /\ fin.present /\ Len(fin.value) = 3
    /\ fin.value[1] # fin.value[3]
    /\ fout.fixed = "header" /\ fout.count = 3 /\ Len(fout.lines) = 3

\* C21: execute_dax_query returns the text of the table list of the first
\* element of results, whatever the later elements hold, and the fixed
\* string when results is absent or empty or its first element has no
\* tables key.
C21_FirstResultOnly ==
    (fin.fn = "dax" /\ fout # NoOutput) =>
        IF fin.present /\ Len(fin.value) >= 1 /\ fin.value[1].tables # "absent"
        THEN /\ fout.fixed = "json"
             /\ fout.lines = <<[kind |-> "json", of |-> fin.value[1].tables]>>
        ELSE /\ fout.fixed = "No data returned"
             /\ fout.lines = <<>>

\* three results with different tables: the first is returned
C21_Witness ==
    /\ fin.fn = "dax" /\ fin.present /\ Len(fin.value) = 3
    /\ fin.value[1].tables = "T1"
    /\ fin.value[2].tables = "absent"
    /\ fin.value[3].tables = "T2"
    /\ fout.fixed = "json"
    /\ fout.lines[1].of = "T1"

\* C22: every GET of the status URL is issued straight after one sleep:
\* the sleeps made equal the status GETs issued, but for the one sleep
\* whose GET is the next step; so no GET comes before the first sleep.
C22_SleepBeforeEveryPoll ==
    \A p \in Procs :
        stats[p].nSleep =
            stats[p].nPoll + (IF pc[p] = "wfo_poll" THEN 1 ELSE 0)

\* a poller that returned after three status GETs and three sleeps
C22_Witness ==
    \E p \in Procs :
        /\ pc[p] = "done"
        /\ stats[p].nPoll = 3
        /\ stats[p].nSleep = 3

\* ------------------------------------------- claims on get_model_definition
\* C23: once the POST of get_model_definition is answered, the poller is
\* entered if and only if the status is 202; with any other status no
\* sleep, status GET or result GET is made, and a status that is not a
\* success is returned as the error "HTTP <status>".
C23_PollerIffAccepted ==
    \A p \in Procs :
        (tool[p] = "get_model_definition" /\ stats[p].post # 0) =>
            /\ stats[p].entered <=> stats[p].post = 202
            /\ stats[p].post # 202 =>
                  /\ pc[p] = "done"
                  /\ stats[p].nSleep = 0 /\ stats[p].nPoll = 0
                  /\ stats[p].nResult = 0
                  /\ ~ok(stats[p].post) =>
                        /\ result[p].isErr
                        /\ result[p].msg = Msg("HTTP", stats[p].post)

\* ---------------------------------------------- claims on the error text
\* C24: the HTTP-status error of make_request holds the status code of the
\* response and the first 200 characters of its body, the whole body when
\* it is shorter; never more than 200 characters.
C24_ErrorBodyTruncated ==
    (fin.fn = "error" /\ fout # NoOutput) =>
        /\ fout.count = fin.status
        /\ Len(fout.lines) <= 200
        /\ Len(fout.lines) = (IF Len(fin.value) < 200 THEN Len(fin.value) ELSE 200)
        /\ \A i \in 1..Len(fout.lines) : fout.lines[i] = fin.value[i]

\* a body of 202 characters cut to 200
C24_Witness ==
    /\ fin.fn = "error" /\ Len(fin.value) = 202
    /\ fout.fixed = "HTTP"
    /\ Len(fout.lines) = 200
    /\ fout.count = 500

\* ------------------------------------------- claims on the forced exchange
\* C25: the step in which make_request's exchange after a 401 ends either
\* obtained a token and goes on to the retry, or obtained none; then the
\* cached token is what it was, no second request is sent, and the call
\* returns the error "HTTP 401" of the response it holds.
C25_FailedRefreshKeeps401 ==
    [][\A p \in Procs :
          (pc[p] = "mr_refresh" /\ pc'[p] # "mr_refresh") =>
              IF stats'[p].idResp = "ok"
              THEN pc'[p] = "mr_retry"
              ELSE /\ TOKEN' = TOKEN
                   /\ pc'[p] = "done"
                   /\ stats'[p].nTarget = 1
                   /\ result'[p].shape = "content" /\ result'[p].isErr
                   /\ result'[p].msg = [tag |-> "HTTP", status |-> 401]]_vars

\* a call that sent one request with the cached token, got 401, asked the
\* identity endpoint, got no token and returned; the stale token is cached
C25_Witness ==
    \E p \in Procs :
        /\ pc[p] = "done"
        /\ stats[p].nForced = 1
        /\ stats[p].idResp \in {"exc", "status", "nofield"}
        /\ stats[p].nTarget = 1
        /\ stats[p].first = 401
        /\ TOKEN # NoToken /\ hdr[p] = TOKEN
        /\ result[p].msg.status = 401

\* ------------------------------------------- claims on the bounded poller
\* C26: a call of railway_app.py's poller issues at most 5 status GETs and
\* at most one result GET, and it returns "Operation timed out" exactly
\* when 5 polls, one after the other, were answered with a success status
\* and an operation status that is neither Succeeded nor Failed.
C26_BoundedPollerTimesOut ==
    \A p \in Procs :
        variant = "railway" =>
            /\ stats[p].nPoll <= 5
            /\ stats[p].nResult <= 1
            /\ (pc[p] = "done" /\ result[p].msg.tag = "Operation timed out")
                  <=> retries[p] = 5
            /\ retries[p] = 5 =>
                  /\ stats[p].nPoll = 5
                  /\ stats[p].lastOp \in {"Running", "missing"}
                  /\ stats[p].nResult = 0
                  /\ result[p].isErr

\* the bounded poller timed out after its fifth poll
C26_Witness ==
    \E p \in Procs :
        /\ variant = "railway"
        /\ pc[p] = "done"
        /\ stats[p].nPoll = 5 /\ stats[p].nSleep = 5
        /\ retries[p] = 5
        /\ result[p].msg.tag = "Operation timed out"

\* ------------------------------------------ claims on the poller's token
\* C27: a status GET answered with a status that is not a success ends the
\* call in that step with the error "Failed to check status: <status>",
\* with no result GET, no token exchange and the cached token untouched;
\* and every status GET and result GET carries the token that was cached
\* when the poller built its headers, whatever is cached by then.
C27_BadPollEndsPoller ==
    [][\A p \in Procs :
          /\ (pc[p] = "wfo_poll" /\ pc'[p] # "wfo_poll") =>
                /\ stats'[p].sentTok = stats[p].entryTok
                /\ response'[p] >= 400 =>
                      /\ pc'[p] = "done"
                      /\ result'[p].shape = "content" /\ result'[p].isErr
                      /\ result'[p].msg =
                            [tag |-> "Failed to check status",
                             status |-> response'[p]]
                      /\ stats'[p].nResult = 0
                      /\ stats'[p].nExchange = stats[p].nExchange
                      /\ TOKEN' = TOKEN
          /\ (pc[p] = "wfo_result" /\ pc'[p] # "wfo_result") =>
                stats'[p].sentTok = stats[p].entryTok
          /\ pc[p] \in {"wfo_sleep", "wfo_poll", "wfo_result"} =>
                stats'[p].entryTok = stats[p].entryTok]_vars

\* a poller whose status GET carried the token of its entry after another
\* call had replaced the cached token, and was answered 401
C27_Witness ==
    \E p \in Procs :
        /\ pc[p] = "done"
        /\ stats[p].nPoll >= 1
        /\ response[p] = 401
        /\ result[p].msg.tag = "Failed to check status"
        /\ stats[p].entryTok # NoToken
        /\ stats[p].sentTok = stats[p].entryTok
        /\ TOKEN # stats[p].entryTok

\* ------------------------------------------- claims on the cached token
\* C28: the cached token starts empty; a step never empties it once it
\* holds a value; and a step changes it only to the value the identity
\* endpoint issued in that step to the call that made the exchange.
C28_TokenNeverCleared ==
    /\ TOKEN = NoToken
    /\ [][/\ TOKEN # NoToken => TOKEN' # NoToken
          /\ TOKEN' # TOKEN =>
                /\ TOKEN' \in Tokens
                /\ TOKEN' = idp'.last
                /\ \E p \in Procs :
                      /\ stats'[p].nExchange = stats[p].nExchange + 1
                      /\ stats'[p].idResp = "ok"
                      /\ stats'[p].lastExchange = "ok"]_vars

\* a token is cached after one call's test_connection exchange failed and
\* another call ended with the error of a 401 response
C28_Witness ==
    \E p, q \in Procs :
        /\ p # q
        /\ TOKEN # NoToken
        /\ tool[p] = "test_connection" /\ pc[p] = "done"
        /\ stats[p].lastExchange = "failed"
        /\ stats[p].overCached
        /\ pc[q] = "done"
        /\ stats[q].n401 >= 1
        /\ result[q].isErr

====
